---- MODULE Spec2Model ----
(***************************************************************************)
(* A model of the static-site migration toolkit: the HTML transformer      *)
(* (convert_html.py), the search indexer (build_search_index.py) and the   *)
(* setup orchestrator (setup.py).                                          *)
(*                                                                         *)
(* Strings that the code inspects character by character (href, id, text,  *)
(* paths) are sequences of one-character strings.  A document is a store   *)
(* of nodes addressed by identity, as the BeautifulSoup tree is: node 1 is *)
(* the BeautifulSoup object itself, a node's kids is the ordered list of   *)
(* its children, and a node that is in nobody's kids is detached.          *)
(***************************************************************************)
EXTENDS Integers, Sequences, FiniteSets, TLC

VARIABLES
  pc,        \* convert_file: the pass that has just completed
  content,   \* convert_file: the markup read from the file (as a tree)
  soup,      \* convert_file: the BeautifulSoup document being rewritten
  written,   \* convert_file: the markup written to the output path
  source,      \* convert_all: the source path (a file, or a directory's files)
  html_files,  \* convert_all: the candidate files found by the two rglob calls
  cursor,      \* convert_all: the position of the loop in html_files
  stats,       \* convert_all: the counters converted, failed, skipped
  outputs,     \* convert_all: the paths whose converted file has been written
  bpc,         \* convert_all: where the call stands
  site,          \* build_index: the files of the directory being indexed
  found,         \* build_index: the files found by the two rglob calls
  position,      \* build_index: the position of the loop in found
  search_index,  \* build_index: the list of page records
  index_file,    \* build_index: the index written to the output file
  first_index,   \* build_index: the index written by the previous run
  ipc,           \* build_index: where the call stands
  source_path,     \* setup: the source path given on the command line
  script_present,  \* setup: convert_html.py exists in the current directory
  root_index,      \* setup: index.html exists in the root directory
  steps,           \* setup: the steps of setup() entered so far, in order
  created,         \* setup: the files written by the scaffolding steps
  convert_result,  \* setup: the convert subprocess (ran, returncode)
  index_result,    \* setup: the build-index subprocess (ran, returncode)
  exit_status,     \* setup: the exit status, once spc = "exited"
  spc,             \* setup: where the run stands
  root_files,      \* setup: the files under the root directory
  sitemap          \* setup: the <url> entries of the sitemap.xml written

convVars == <<pc, content, soup, written>>
batchVars == <<source, html_files, cursor, stats, outputs, bpc>>
indexVars == <<site, found, position, search_index, index_file, first_index, ipc>>
setupVars == <<source_path, script_present, root_index, steps, created, convert_result,
               index_result, exit_status, spc, root_files, sitemap>>

vars == <<pc, content, soup, written, source, html_files, cursor, stats, outputs, bpc,
          site, found, position, search_index, index_file, first_index, ipc,
          source_path, script_present, root_index, steps, created, convert_result,
          index_result, exit_status, spc, root_files, sitemap>>

(***************************************************************************)
(* Bounds of the model.                                                    *)
(***************************************************************************)
MaxNodes == 3      \* elements of a free-form input document
MaxRows == 2       \* rows of an input table
MaxCells == 3      \* cells of an input table row
MaxHeadings == 3   \* headings of an input document
MaxLinks == 2      \* anchors of an input paragraph
MaxFiles == 2      \* files of a source directory
MaxPages == 2      \* files of an indexed directory
MaxRootFiles == 2  \* files under the root directory before setup runs

(***************************************************************************)
(* Strings.                                                                *)
(***************************************************************************)
SiteOrigin == <<"h", "t", "t", "p", ":", "/", "/", "w", "w", "w", ".", "b", "i", "b", "l", "e", "t", "e", "x", "t", "s", ".", "c", "o", "m", "/">>
HttpPrefix == <<"h", "t", "t", "p">>
HttpSlashes == <<"h", "t", "t", "p", ":", "/", "/">>
HrefSite == <<"h", "t", "t", "p", ":", "/", "/", "w", "w", "w", ".", "b", "i", "b", "l", "e", "t", "e", "x", "t", "s", ".", "c", "o", "m", "/", "t", "o", "p", "i", "c", "a", "l", ".", "h", "t", "m", "l">>
HrefRel == <<"t", "o", "p", "i", "c", "a", "l", ".", "h", "t", "m", "l">>
HrefExt == <<"h", "t", "t", "p", ":", "/", "/", "e", "x", "a", "m", "p", "l", "e", ".", "c", "o", "m">>
HrefSecure == <<"h", "t", "t", "p", "s", ":", "/", "/", "e", "x", "a", "m", "p", "l", "e", ".", "c", "o", "m">>
HrefFrag == <<"#", "t", "o", "p">>
HeadingPrefix == <<"h", "e", "a", "d", "i", "n", "g", "-">>
W100 == <<"1", "0", "0", "%">>
Alphabet == <<"A", "B", "C", "D", "E", "F", "G", "H", "I", "J", "K", "L", "M",
              "N", "O", "P", "Q", "R", "S", "T", "U", "V", "W", "X", "Y", "Z">>

Range(s) == {s[i] : i \in 1..Len(s)}

\* str.startswith
StartsWith(s, prefix) ==
  /\ Len(s) >= Len(prefix)
  /\ SubSeq(s, 1, Len(prefix)) = prefix

\* str.endswith
EndsWith(s, suffix) ==
  /\ Len(s) >= Len(suffix)
  /\ SubSeq(s, Len(s) - Len(suffix) + 1, Len(s)) = suffix

\* the `in` operator on strings: sub occurs somewhere in s
Contains(s, sub) ==
  \E i \in 0..(Len(s) - Len(sub)) : SubSeq(s, i + 1, i + Len(sub)) = sub

\* str.replace(old, ''): every non-overlapping occurrence, left to right
RECURSIVE RemoveAll(_, _)
RemoveAll(s, old) ==
  IF s = <<>> THEN <<>>
  ELSE IF StartsWith(s, old) THEN RemoveAll(SubSeq(s, Len(old) + 1, Len(s)), old)
  ELSE <<Head(s)>> \o RemoveAll(Tail(s), old)

\* the decimal digits of a natural number, as f'{i}' prints it
RECURSIVE ToStr(_)
ToStr(i) ==
  LET digits == <<"0", "1", "2", "3", "4", "5", "6", "7", "8", "9">>
  IN IF i < 10 THEN <<digits[i + 1]>> ELSE ToStr(i \div 10) \o <<digits[(i % 10) + 1]>>

(***************************************************************************)
(* The document tree.                                                      *)
(***************************************************************************)
NoAttrs == [a \in {} |-> <<>>]

\* markup, as html.parser reads it: an element with its children, or a text
El(tag, attrs, kids) == [tag |-> tag, attrs |-> attrs, kids |-> kids, text |-> <<>>]
Txt(s) == [tag |-> "#text", attrs |-> NoAttrs, kids |-> <<>>, text |-> s]

Root == 1

Node(tag, attrs, text) == [tag |-> tag, attrs |-> attrs, kids |-> <<>>, text |-> text]

EmptySoup == <<Node("[document]", NoAttrs, <<>>)>>

\* Tag.get(name): the attribute's value, or the empty value when absent
HasAttr(n, name) == name \in DOMAIN n.attrs
Get(n, name) == IF HasAttr(n, name) THEN n.attrs[name] ELSE <<>>
SetAttr(dom, id, name, value) ==
  [dom EXCEPT ![id].attrs = (name :> value) @@ @]

\* element.parent: 0 stands for None
ParentOf(dom, id) ==
  IF \E p \in 1..Len(dom) : id \in Range(dom[p].kids)
  THEN CHOOSE p \in 1..Len(dom) : id \in Range(dom[p].kids)
  ELSE 0

Without(s, id) == SelectSeq(s, LAMBDA x : x # id)

\* PageElement.extract
Extract(dom, id) ==
  LET p == ParentOf(dom, id)
  IN IF p = 0 THEN dom ELSE [dom EXCEPT ![p].kids = Without(@, id)]

\* Tag.insert(position, child): the child leaves its old parent first
InsertChild(dom, p, pos, id) ==
  LET d == Extract(dom, id)
      k == d[p].kids
      at == IF pos > Len(k) THEN Len(k) ELSE pos
  IN [d EXCEPT ![p].kids = SubSeq(k, 1, at) \o <<id>> \o SubSeq(k, at + 1, Len(k))]

\* Tag.append(child)
AppendChild(dom, p, id) == InsertChild(dom, p, Len(dom[p].kids), id)

\* soup.new_tag / Comment(...) / a new string: a detached node; its id is Len
NewNode(dom, tag, attrs, text) == Append(dom, Node(tag, attrs, text))

\* the descendants of a node in document order (pre-order)
RECURSIVE DescOfKids(_, _)
DescOfKids(dom, kids) ==
  IF kids = <<>> THEN <<>>
  ELSE <<Head(kids)>> \o DescOfKids(dom, dom[Head(kids)].kids) \o DescOfKids(dom, Tail(kids))

Descendants(dom, id) == DescOfKids(dom, dom[id].kids)

\* Tag.find_all(names) and Tag.find(name) (0 stands for None)
FindAll(dom, id, tags) == SelectSeq(Descendants(dom, id), LAMBDA n : dom[n].tag \in tags)
Find(dom, id, tags) ==
  LET r == FindAll(dom, id, tags) IN IF r = <<>> THEN 0 ELSE Head(r)

\* BeautifulSoup(content, 'html.parser'): the store holding the markup's tree
RECURSIVE AddForest(_, _, _)
AddForest(dom, p, forest) ==
  IF forest = <<>> \/ p \notin DOMAIN dom THEN dom
  ELSE LET t == Head(forest)
           d1 == NewNode(dom, t.tag, t.attrs, t.text)
           id == Len(d1)
           d2 == [d1 EXCEPT ![p].kids = Append(@, id)]
       IN AddForest(AddForest(d2, id, t.kids), p, Tail(forest))

Parse(markup) == AddForest(EmptySoup, Root, markup)

\* str(soup): the markup of the subtree below a node
RECURSIVE SerializeKids(_, _)
SerializeKids(dom, kids) ==
  IF kids = <<>> THEN <<>>
  ELSE LET n == dom[Head(kids)]
       IN <<[tag |-> n.tag, attrs |-> n.attrs, kids |-> SerializeKids(dom, n.kids), text |-> n.text]>>
          \o SerializeKids(dom, Tail(kids))

Serialize(dom) == SerializeKids(dom, dom[Root].kids)

(***************************************************************************)
(* convert_html.py: HTMLConverter._convert_to_html5                        *)
(***************************************************************************)
AllowListWithSpan ==
  {"table", "p", "div", "ul", "ol", "li", "h1", "h2", "h3", "h4", "h5", "h6", "span"}

AllowList == {"table", "p", "div", "ul", "ol", "li", "h1", "h2", "h3", "h4", "h5", "h6"}
HeadingTags == {"h1", "h2", "h3", "h4", "h5", "h6"}

\* Tag.unwrap: the element is replaced by its children
Unwrap(dom, id) ==
  LET p == ParentOf(dom, id)
      k == dom[p].kids
      at == CHOOSE i \in 1..Len(k) : k[i] = id
  IN [dom EXCEPT ![p].kids = SubSeq(k, 1, at - 1) \o dom[id].kids \o SubSeq(k, at + 1, Len(k)),
                 ![id].kids = <<>>]

UnwrapHtml(dom) ==
  LET h == Find(dom, Root, {"html"}) IN IF h # 0 THEN Unwrap(dom, h) ELSE dom

InsertDoctype(dom) ==
  IF dom[Root].kids # <<>>
  THEN LET d == NewNode(dom, "#comment", NoAttrs, <<"D", "O", "C", "T", "Y", "P", "E", " ", "h", "t", "m", "l">>)
       IN InsertChild(d, Root, 0, Len(d))
  ELSE dom

\* the elements of the document that are moved to the new body
ExistingContentTopLevel(dom) ==
  SelectSeq(dom[Root].kids, LAMBDA n : dom[n].tag \in AllowList)

ExistingContent(dom) == FindAll(dom, Root, AllowList)

\* for element in existing_content: if element.parent: extract, append to body
RECURSIVE MoveToBody(_, _, _)
MoveToBody(dom, elements, body) ==
  IF elements = <<>> THEN dom
  ELSE LET e == Head(elements)
           d == IF ParentOf(dom, e) # 0 THEN AppendChild(Extract(dom, e), body, e) ELSE dom
       IN MoveToBody(d, Tail(elements), body)

ConvertToHtml5(dom) ==
  LET d0 == InsertDoctype(UnwrapHtml(dom))
      d1 == NewNode(d0, "html", ("lang" :> <<"e", "n">>), <<>>)
      html == Len(d1)
      d2 == NewNode(d1, "head", NoAttrs, <<>>)
      head == Len(d2)
      d3 == AppendChild(d2, html, head)
      d4 == NewNode(d3, "body", NoAttrs, <<>>)
      body == Len(d4)
      d5 == AppendChild(d4, html, body)
      d6 == MoveToBody(d5, ExistingContent(d5), body)
      d7 == [d6 EXCEPT ![Root].kids = <<>>]
  IN AppendChild(d7, Root, html)

(***************************************************************************)
(* convert_html.py: HTMLConverter._add_modern_structure                    *)
(***************************************************************************)

\* a new tag with the given attributes, put at a position of a parent's children
InsertNew(dom, p, pos, tag, attrs) ==
  LET d == NewNode(dom, tag, attrs, <<>>) IN InsertChild(d, p, pos, Len(d))

AppendNew(dom, p, tag, attrs) ==
  LET d == NewNode(dom, tag, attrs, <<>>) IN AppendChild(d, p, Len(d))

\* the skip link put after the content of body
InsertSkipLinkLast(dom) ==
  LET d1 == NewNode(dom, "a", ("href" :> <<"#", "m", "a", "i", "n", "-", "c", "o", "n", "t", "e", "n", "t">>) @@ ("class" :> <<"skip-link">>), <<>>)
      link == Len(d1)
      d2 == NewNode(d1, "#text", NoAttrs, <<"S", "k", "i", "p", " ", "t", "o", " ", "m", "a", "i", "n", " ", "c", "o", "n", "t", "e", "n", "t">>)
      d3 == AppendChild(d2, link, Len(d2))
  IN AppendChild(d3, Find(d3, Root, {"body"}), link)

\* skip_link.string = '...'; body.insert(0, skip_link)
InsertSkipLink(dom) ==
  LET d1 == NewNode(dom, "a", ("href" :> <<"#", "m", "a", "i", "n", "-", "c", "o", "n", "t", "e", "n", "t">>) @@ ("class" :> <<"skip-link">>), <<>>)
      link == Len(d1)
      d2 == NewNode(d1, "#text", NoAttrs, <<"S", "k", "i", "p", " ", "t", "o", " ", "m", "a", "i", "n", " ", "c", "o", "n", "t", "e", "n", "t">>)
      d3 == AppendChild(d2, link, Len(d2))
  IN InsertChild(d3, Find(d3, Root, {"body"}), 0, link)

AddModernStructure(dom) ==
  LET head == Find(dom, Root, {"head"})
  IN IF head = 0 THEN dom
     ELSE LET d1 == InsertNew(dom, head, 0, "meta", ("charset" :> <<"u", "t", "f", "-", "8">>))
              d2 == InsertNew(d1, head, 1, "meta", ("name" :> <<"v", "i", "e", "w", "p", "o", "r", "t">>) @@ ("content" :> <<"w", "i", "d", "t", "h", "=", "d", "e", "v", "i", "c", "e", "-", "w", "i", "d", "t", "h", ",", " ", "i", "n", "i", "t", "i", "a", "l", "-", "s", "c", "a", "l", "e", "=", "1", ".", "0">>))
              d3 == InsertNew(d2, head, 2, "meta", ("name" :> <<"d", "e", "s", "c", "r", "i", "p", "t", "i", "o", "n">>) @@ ("content" :> <<"B", "i", "b", "l", "e", " ", "s", "t", "u", "d", "y", " ", "r", "e", "s", "o", "u", "r", "c", "e", "s", " ", "a", "n", "d", " ", "c", "o", "m", "m", "e", "n", "t", "a", "r", "y">>))
              d4 == AppendNew(d3, head, "link", ("rel" :> <<"s", "t", "y", "l", "e", "s", "h", "e", "e", "t">>) @@ ("href" :> <<"c", "s", "s", "/", "m", "o", "d", "e", "r", "n", "-", "s", "t", "y", "l", "e", "s", ".", "c", "s", "s">>))
              d5 == AppendNew(d4, head, "script", ("src" :> <<"j", "s", "/", "m", "o", "d", "e", "r", "n", "-", "f", "e", "a", "t", "u", "r", "e", "s", ".", "j", "s">>) @@ ("defer" :> TRUE))
              d6 == AppendNew(d5, head, "script", ("src" :> <<"j", "s", "/", "s", "e", "a", "r", "c", "h", ".", "j", "s">>) @@ ("defer" :> TRUE))
              d7 == AppendNew(d6, head, "script", ("src" :> <<"j", "s", "/", "s", "e", "a", "r", "c", "h", "-", "i", "n", "d", "e", "x", ".", "j", "s">>) @@ ("defer" :> TRUE))
          IN InsertSkipLink(d7)

(***************************************************************************)
(* convert_html.py: HTMLConverter._convert_tables                          *)
(***************************************************************************)
\* a layout-table test that leaves the width out
IsLayoutTableNoWidth(n) ==
  \/ Get(n, "cellpadding") # <<>>
  \/ Get(n, "cellspacing") # <<>>
  \/ HasAttr(n, "bgcolor")

\* the layout-table test of the loop
IsLayoutTable(n) ==
  \/ Get(n, "width") = W100
  \/ Get(n, "cellpadding") # <<>>
  \/ Get(n, "cellspacing") # <<>>
  \/ HasAttr(n, "bgcolor")

\* Tag.extend(cell.contents): each child of the cell, in order, moves to target
RECURSIVE MoveKids(_, _, _)
MoveKids(dom, target, kids) ==
  IF kids = <<>> THEN dom
  ELSE MoveKids(AppendChild(dom, target, Head(kids)), target, Tail(kids))

Extend(dom, target, cell) == MoveKids(dom, target, dom[cell].kids)

ColumnClass(i) == IF i = 1 THEN "column-1" ELSE "column-2"

\* one child div per cell, holding the cell's contents, appended to section
RECURSIVE CellsToDivs(_, _, _, _, _)
CellsToDivs(dom, section, cells, i, twoColumn) ==
  IF i > Len(cells) THEN dom
  ELSE LET cls == IF twoColumn THEN <<"column", ColumnClass(i)>> ELSE <<"grid-item">>
           d1 == NewNode(dom, "div", ("class" :> cls), <<>>)
           col == Len(d1)
           d2 == Extend(d1, col, cells[i])
       IN CellsToDivs(AppendChild(d2, section, col), section, cells, i + 1, twoColumn)

\* the body of `for row in rows`
ConvertRow(dom, wrapper, row) ==
  LET cells == FindAll(dom, row, {"td", "th"})
  IN IF Len(cells) = 1
     THEN LET d1 == NewNode(dom, "section", ("class" :> <<"content-section">>), <<>>)
              section == Len(d1)
          IN AppendChild(Extend(d1, section, cells[1]), wrapper, section)
     ELSE IF Len(cells) = 2
     THEN LET d1 == NewNode(dom, "div", ("class" :> <<"two-column-layout">>), <<>>)
              section == Len(d1)
          IN AppendChild(CellsToDivs(d1, section, cells, 1, TRUE), wrapper, section)
     ELSE LET d1 == NewNode(dom, "div", ("class" :> <<"grid-layout">>), <<>>)
              section == Len(d1)
          IN AppendChild(CellsToDivs(d1, section, cells, 1, FALSE), wrapper, section)

RECURSIVE ConvertRows(_, _, _)
ConvertRows(dom, wrapper, rows) ==
  IF rows = <<>> THEN dom
  ELSE ConvertRows(ConvertRow(dom, wrapper, Head(rows)), wrapper, Tail(rows))

\* Tag.replace_with: the new node takes the old node's place
ReplaceWith(dom, old, new) ==
  LET p == ParentOf(dom, old)
  IN IF p = 0 THEN dom
     ELSE LET d == Extract(dom, new)
          IN [d EXCEPT ![p].kids = [i \in 1..Len(@) |-> IF @[i] = old THEN new ELSE @[i]]]

\* the body of `for table in tables`
ConvertTable(dom, table) ==
  IF IsLayoutTable(dom[table])
  THEN LET d1 == NewNode(dom, "div", ("class" :> <<"modern-layout">>), <<>>)
           wrapper == Len(d1)
           d2 == ConvertRows(d1, wrapper, FindAll(d1, table, {"tr"}))
       IN ReplaceWith(d2, table, wrapper)
  ELSE dom

RECURSIVE ConvertTableList(_, _)
ConvertTableList(dom, tables) ==
  IF tables = <<>> THEN dom
  ELSE ConvertTableList(ConvertTable(dom, Head(tables)), Tail(tables))

ConvertTables(dom) == ConvertTableList(dom, FindAll(dom, Root, {"table"}))

(***************************************************************************)
(* convert_html.py: HTMLConverter._add_accessibility                       *)
(***************************************************************************)

MarkLandmark(dom) ==
  LET body == Find(dom, Root, {"body"})
  IN IF body = 0 THEN dom
     ELSE SetAttr(SetAttr(dom, body, "role", <<"m", "a", "i", "n">>), body, "id", <<"m", "a", "i", "n", "-", "c", "o", "n", "t", "e", "n", "t">>)

HeadingIdFromOne(i) == HeadingPrefix \o ToStr(i + 1)

\* f'heading-{i}'
HeadingId(i) == HeadingPrefix \o ToStr(i)

\* for i, heading in enumerate(headings): i is the position among all headings
RECURSIVE NumberHeadings(_, _, _)
NumberHeadings(dom, headings, i) ==
  IF i > Len(headings) THEN dom
  ELSE LET h == headings[i]
           d == IF Get(dom[h], "id") = <<>> THEN SetAttr(dom, h, "id", HeadingId(i - 1)) ELSE dom
       IN NumberHeadings(d, headings, i + 1)

\* for node in nodes: if not node.get(name): node[name] = value
RECURSIVE DefaultAttr(_, _, _, _)
DefaultAttr(dom, nodes, name, value) ==
  IF nodes = <<>> THEN dom
  ELSE LET n == Head(nodes)
           d == IF Get(dom[n], name) = <<>> THEN SetAttr(dom, n, name, value) ELSE dom
       IN DefaultAttr(d, Tail(nodes), name, value)

AddAccessibility(dom) ==
  LET d1 == MarkLandmark(dom)
      d2 == NumberHeadings(d1, FindAll(d1, Root, HeadingTags), 1)
      d3 == DefaultAttr(d2, FindAll(d2, Root, {"img"}), "alt", <<"I", "m", "a", "g", "e">>)
  IN DefaultAttr(d3, FindAll(d3, Root, {"a"}), "tabindex", <<"0">>)

(***************************************************************************)
(* convert_html.py: HTMLConverter._add_responsive_classes                  *)
(***************************************************************************)
\* for node in nodes: node['class'] = node.get('class', []) + [cls]
RECURSIVE AddClass(_, _, _)
AddClass(dom, nodes, cls) ==
  IF nodes = <<>> THEN dom
  ELSE LET n == Head(nodes)
       IN AddClass(SetAttr(dom, n, "class", Get(dom[n], "class") \o <<cls>>), Tail(nodes), cls)

\* the tests of the three loops
IsFullWidth(n) == Get(n, "width") = W100
HasNoClass(n) == Get(n, "class") = <<>>
IsHttpLink(n) == HasAttr(n, "href") /\ StartsWith(n.attrs["href"], HttpPrefix)

AddResponsiveClasses(dom) ==
  LET tables == SelectSeq(FindAll(dom, Root, {"table"}), LAMBDA n : IsFullWidth(dom[n]))
      d1 == AddClass(dom, tables, "container")
      paragraphs == SelectSeq(FindAll(d1, Root, {"p"}), LAMBDA n : HasNoClass(d1[n]))
      d2 == AddClass(d1, paragraphs, "responsive-text")
      links == SelectSeq(FindAll(d2, Root, {"a"}), LAMBDA n : IsHttpLink(d2[n]))
  IN AddClass(d2, links, "external-link")

(***************************************************************************)
(* convert_html.py: HTMLConverter._update_links                            *)
(***************************************************************************)
Blank == <<"_", "b", "l", "a", "n", "k">>
NoOpener == <<"n", "o", "o", "p", "e", "n", "e", "r", " ", "n", "o", "r", "e", "f", "e", "r", "r", "e", "r">>

\* the test of the elif branch: the link is treated as external
IsExternalHref(href) == StartsWith(href, HttpSlashes)

\* the body of `for link in links`
UpdateLink(dom, link) ==
  LET href == dom[link].attrs["href"]
  IN IF StartsWith(href, SiteOrigin)
     THEN SetAttr(dom, link, "href", RemoveAll(href, SiteOrigin))
     ELSE IF IsExternalHref(href)
     THEN SetAttr(SetAttr(dom, link, "target", Blank), link, "rel", NoOpener)
     ELSE dom

RECURSIVE UpdateLinkList(_, _)
UpdateLinkList(dom, links) ==
  IF links = <<>> THEN dom
  ELSE UpdateLinkList(UpdateLink(dom, Head(links)), Tail(links))

\* soup.find_all('a', href=True)
LinksWithHref(dom) ==
  SelectSeq(FindAll(dom, Root, {"a"}), LAMBDA n : HasAttr(dom[n], "href"))

UpdateLinks(dom) == UpdateLinkList(dom, LinksWithHref(dom))

(***************************************************************************)
(* The input documents: the markup a file can hold.                        *)
(***************************************************************************)
\* free-form documents: every forest of at most MaxNodes elements of Palette
Palette ==
  { [tag |-> "div", attrs |-> NoAttrs],
    [tag |-> "p", attrs |-> NoAttrs],
    [tag |-> "span", attrs |-> NoAttrs],
    [tag |-> "table", attrs |-> ("width" :> W100)],
    [tag |-> "a", attrs |-> ("href" :> HrefExt)] }

RECURSIVE Forests(_)
Forests(n) ==
  IF n = 0 THEN {<<>>}
  ELSE UNION { { <<El(k.tag, k.attrs, inner)>> \o rest :
                   k \in Palette, inner \in Forests(i - 1), rest \in Forests(n - i) } :
               i \in 1..n }

GenericDocs == UNION { Forests(n) : n \in 0..MaxNodes }

\* a legacy page: <html><head><title/></head><body>...</body></html>
Page(forest) ==
  <<El("html", NoAttrs, <<El("head", NoAttrs, <<El("title", NoAttrs, <<Txt(<<"T">>)>>)>>),
                          El("body", NoAttrs, forest)>>)>>

\* documents of headings: at most MaxHeadings headings, with or without an id
HeadingKinds ==
  { [tag |-> "h1", attrs |-> NoAttrs],
    [tag |-> "h2", attrs |-> ("id" :> <<"i", "n", "t", "r", "o">>)],
    [tag |-> "h3", attrs |-> ("id" :> <<>>)],
    [tag |-> "h4", attrs |-> ("id" :> HeadingPrefix \o <<"1">>)] }

RECURSIVE KindSeqs(_, _)
KindSeqs(kinds, n) ==
  IF n = 0 THEN {<<>>}
  ELSE { <<k>> \o rest : k \in kinds, rest \in KindSeqs(kinds, n - 1) }

KindSeqsUpTo(kinds, n) == UNION { KindSeqs(kinds, m) : m \in 0..n }

HeadingDocs ==
  { [i \in 1..Len(ks) |-> El(ks[i].tag, ks[i].attrs, <<Txt(<<Alphabet[i]>>)>>)] :
      ks \in KindSeqsUpTo(HeadingKinds, MaxHeadings) }

\* documents of links: a paragraph of at most MaxLinks anchors
HrefSiteTwice == SiteOrigin \o <<"a", "?", "b", "=">> \o SiteOrigin \o <<"c">>

LinkKinds ==
  { ("href" :> HrefSite), ("href" :> HrefSiteTwice), ("href" :> HrefExt),
    ("href" :> HrefSecure), ("href" :> HrefRel), ("href" :> HrefFrag), NoAttrs }

LinkDocs ==
  { Page(<<El("p", NoAttrs, [i \in 1..Len(ks) |-> El("a", ks[i], <<Txt(<<Alphabet[i]>>)>>)])>>) :
      ks \in KindSeqsUpTo(LinkKinds, MaxLinks) }

\* documents of one table: its attributes, its rows' cell counts, and what a
\* cell holds (a text, a paragraph of text, or an anchor)
TableAttrs ==
  { NoAttrs, ("width" :> W100), ("width" :> <<"5", "0", "%">>), ("border" :> <<"1">>),
    ("cellpadding" :> <<"5">>), ("cellpadding" :> <<>>),
    ("cellspacing" :> <<"0">>), ("cellspacing" :> <<>>),
    ("bgcolor" :> <<"#", "f", "f", "f">>), ("bgcolor" :> <<>>),
    ("class" :> <<"container">>) }

CellKinds == {"text", "para", "link"}

CellContent(kind, letter) ==
  IF kind = "text" THEN <<Txt(<<letter>>)>>
  ELSE IF kind = "para" THEN <<El("p", NoAttrs, <<Txt(<<letter>>)>>)>>
  ELSE <<El("a", ("href" :> HrefRel), <<Txt(<<letter>>)>>)>>

\* the number of cells in the rows before row r
RECURSIVE CellsBefore(_, _)
CellsBefore(counts, r) == IF r <= 1 THEN 0 ELSE CellsBefore(counts, r - 1) + counts[r - 1]

TableRow(counts, r, kind) ==
  El("tr", NoAttrs,
     [c \in 1..counts[r] |->
        El(IF c = 2 THEN "th" ELSE "td", NoAttrs,
           CellContent(kind, Alphabet[CellsBefore(counts, r) + c]))])

TableDoc(attrs, counts, kind) ==
  Page(<<El("table", attrs, [r \in 1..Len(counts) |-> TableRow(counts, r, kind)])>>)

RowCounts == UNION { [1..n -> 0..MaxCells] : n \in 0..MaxRows }

TableDocs ==
  { TableDoc(attrs, counts, kind) : attrs \in TableAttrs, counts \in RowCounts, kind \in CellKinds }

InputDocs == GenericDocs \cup HeadingDocs \cup LinkDocs \cup TableDocs

(***************************************************************************)
(* convert_html.py: HTMLConverter.convert_file, one pass per step          *)
(***************************************************************************)
NoFile == <<"(", "n", "o", "n", "e", ")">>

\* the variables of convert_all while no batch runs
BatchIdle ==
  /\ source = [isFile |-> TRUE, files |-> <<>>]
  /\ html_files = <<>>
  /\ cursor = 0
  /\ stats = [converted |-> 0, failed |-> 0, skipped |-> 0]
  /\ outputs = {}
  /\ bpc = "idle"

\* the variables of convert_file while no single conversion is followed
ConvertIdle ==
  /\ pc = "idle"
  /\ content = <<>>
  /\ soup = EmptySoup
  /\ written = NoFile

\* the variables of build_index while no indexing runs
IndexIdle ==
  /\ site = <<>>
  /\ found = <<>>
  /\ position = 0
  /\ search_index = <<>>
  /\ index_file = [writes |-> 0, data |-> <<>>]
  /\ first_index = [writes |-> 0, data |-> <<>>]
  /\ ipc = "idle"

\* the variables of setup while no setup runs
NotRun == [ran |-> FALSE, returncode |-> 0]

SetupIdle ==
  /\ source_path = [exists |-> FALSE, isFile |-> FALSE, files |-> <<>>]
  /\ script_present = FALSE
  /\ root_index = FALSE
  /\ steps = <<>>
  /\ created = {}
  /\ convert_result = NotRun
  /\ index_result = NotRun
  /\ exit_status = 0
  /\ spc = "idle"
  /\ root_files = {}
  /\ sitemap = <<>>

InitConvert ==
  /\ pc = "read"
  /\ content \in InputDocs
  /\ soup = EmptySoup
  /\ written = NoFile
  /\ BatchIdle
  /\ IndexIdle
  /\ SetupIdle

ParseFile ==
  /\ pc = "read"
  /\ soup' = Parse(content)
  /\ pc' = "parsed"
  /\ UNCHANGED <<content, written>>
  /\ UNCHANGED <<batchVars, indexVars, setupVars>>

Pass(from, to, result) ==
  /\ pc = from
  /\ soup' = result
  /\ pc' = to
  /\ UNCHANGED <<content, written>>
  /\ UNCHANGED <<batchVars, indexVars, setupVars>>

StepHtml5 == Pass("parsed", "html5", ConvertToHtml5(soup))
StepStructure == Pass("html5", "structure", AddModernStructure(soup))
StepTables == Pass("structure", "tables", ConvertTables(soup))
StepAccessibility == Pass("tables", "accessibility", AddAccessibility(soup))
StepResponsive == Pass("accessibility", "responsive", AddResponsiveClasses(soup))
StepLinks == Pass("responsive", "links", UpdateLinks(soup))

WriteFile ==
  /\ pc = "links"
  /\ written' = Serialize(soup)
  /\ pc' = "done"
  /\ UNCHANGED <<content, soup>>
  /\ UNCHANGED <<batchVars, indexVars, setupVars>>

NextConvert ==
  \/ ParseFile
  \/ StepHtml5
  \/ StepStructure
  \/ StepTables
  \/ StepAccessibility
  \/ StepResponsive
  \/ StepLinks
  \/ WriteFile

Spec == InitConvert /\ [][NextConvert]_vars

(***************************************************************************)
(* Properties of convert_file.                                             *)
(***************************************************************************)
\* the document as parsed from the file; a source node keeps its identity
\* (its index in the store) through every pass
Src == Parse(content)

BlockTags == {"table", "p", "div", "ul", "ol", "li", "h1", "h2", "h3", "h4", "h5", "h6"}
TitleTags == {"h1", "h2", "h3", "h4", "h5", "h6"}

IsElement(n) == n.tag \notin {"#text", "#comment", "[document]"}

\* the source elements, in document order
ElementsOf(dom) == SelectSeq(Descendants(dom, Root), LAMBDA n : IsElement(dom[n]))
BlocksOf(dom) == SelectSeq(ElementsOf(dom), LAMBDA n : dom[n].tag \in BlockTags)
SrcElements == ElementsOf(Src)
SrcBlocks == BlocksOf(Src)

NewBody == Find(soup, Root, {"body"})

RECURSIVE Ancestors(_, _)
Ancestors(dom, id) ==
  LET p == ParentOf(dom, id) IN IF p = 0 THEN {} ELSE {p} \cup Ancestors(dom, p)

HasBlockAncestor(dom, id) == \E a \in Ancestors(dom, id) : dom[a].tag \in BlockTags

\* the children of body are the blocks, and no block is a child elsewhere
HoldsExactly(dom, body, blocks) ==
  /\ dom[body].kids = blocks
  /\ \A e \in Range(blocks) :
       \A p \in 1..Len(dom) : e \in Range(dom[p].kids) => p = body

\* C1: after _convert_to_html5 the children of the new body are exactly the
\* allow-listed elements of the source, in document order, and each of them
\* has left its former parent (it is a child of the body and of nothing else).
C1_BlocksRelocatedInOrder == pc = "html5" => HoldsExactly(soup, NewBody, SrcBlocks)

\* C1 witness: a document in which an allow-listed element was nested in
\* another one, so that relocation had to detach it from an element
C1_Witness ==
  /\ pc = "html5"
  /\ Len(SrcBlocks) >= 2
  /\ \E e \in Range(SrcBlocks) : HasBlockAncestor(Src, e)

\* C2 as claimed: no source element outside the allow-list is anywhere in
\* the subtree of the body built by _convert_to_html5.
C2_NoOtherElementSurvives ==
  pc = "html5" =>
    \A n \in Range(SrcElements) :
      Src[n].tag \notin BlockTags => n \notin Range(Descendants(soup, NewBody))

\* the children of body are blocks, and an element of src that is no block
\* is below body exactly when it had a block above it in src
SurvivesIffInside(src, kept, n) ==
  src[n].tag \notin BlockTags => (n \in kept <=> HasBlockAncestor(src, n))

OnlyInsideBlocks(dom, body, src) ==
  /\ \A k \in Range(dom[body].kids) : dom[k].tag \in BlockTags
  /\ \A n \in Range(ElementsOf(src)) :
       SurvivesIffInside(src, Range(Descendants(dom, body)), n)

\* C2 amended: no element outside the allow-list is a child of the body, and
\* a source element outside the allow-list is in the body's subtree exactly
\* when it had an allow-listed ancestor in the source (it rides inside it).
C2_OthersSurviveOnlyInsideBlocks == pc = "html5" => OnlyInsideBlocks(soup, NewBody, Src)

\* C2 witness: one element outside the allow-list was dropped and another
\* one survived inside an allow-listed element
C2_Witness ==
  /\ pc = "html5"
  /\ \E n \in Range(SrcElements) :
       /\ Src[n].tag = "span"
       /\ n \in Range(Descendants(soup, NewBody))
  /\ \E n \in Range(SrcElements) :
       /\ Src[n].tag = "span"
       /\ n \notin Range(Descendants(soup, Root))

\* the markup of a node and of its subtree
Markup(dom, id) == SerializeKids(dom, <<id>>)

IndexIn(s, x) == CHOOSE i \in 1..Len(s) : s[i] = x

\* the node that stands, after the step, where node t stood before it
Successor(t) == soup'[ParentOf(soup, t)].kids[IndexIn(soup[ParentOf(soup, t)].kids, t)]

CarriesLayoutAttribute(n) ==
  \/ Get(n, "width") = W100
  \/ HasAttr(n, "cellpadding")
  \/ HasAttr(n, "cellspacing")
  \/ HasAttr(n, "bgcolor")

\* C3: the table pass replaces every table that carries width="100%", a
\* cellpadding, a cellspacing or a bgcolor attribute (whatever its value) by
\* a div at the same position, and leaves every other table unchanged.
C3_LayoutTablesReplaced ==
  [][(pc = "structure" /\ pc' = "tables") =>
       \A t \in Range(FindAll(soup, Root, {"table"})) :
         IF CarriesLayoutAttribute(soup[t])
         THEN soup'[Successor(t)].tag = "div"
         ELSE Successor(t) = t /\ Markup(soup', t) = Markup(soup, t)]_vars

\* the content a cell had in the source file is what the holder now carries
CarriesCell(holder, cell) ==
  SerializeKids(soup', soup'[holder].kids) = SerializeKids(Src, Src[cell].kids)

HasClass(n, cls) == cls \in Range(Get(n, "class"))

RowMapped(section, row) ==
  LET cells == FindAll(Src, row, {"td", "th"})
  IN IF Len(cells) = 1
     THEN /\ soup'[section].tag = "section"
          /\ CarriesCell(section, cells[1])
     ELSE IF Len(cells) = 2
     THEN /\ soup'[section].tag = "div"
          /\ HasClass(soup'[section], "two-column-layout")
          /\ Len(soup'[section].kids) = 2
          /\ \A i \in 1..2 :
               /\ soup'[soup'[section].kids[i]].tag = "div"
               /\ CarriesCell(soup'[section].kids[i], cells[i])
     ELSE IF Len(cells) >= 3
     THEN /\ soup'[section].tag = "div"
          /\ HasClass(soup'[section], "grid-layout")
          /\ Len(soup'[section].kids) = Len(cells)
          /\ \A i \in 1..Len(cells) :
               /\ soup'[soup'[section].kids[i]].tag = "div"
               /\ CarriesCell(soup'[section].kids[i], cells[i])
     ELSE TRUE

\* C4: when a layout table is converted, the wrapper holds one child per
\* row, in row order: a section with the cell's content for a row of one
\* cell, a two-column wrapper of two divs for two cells, a grid wrapper of
\* one div per cell for three or more, each holding the content the cell had
\* in the file, in cell order.
C4_RowsMapByCellCount ==
  [][(pc = "structure" /\ pc' = "tables") =>
       \A t \in Range(FindAll(soup, Root, {"table"})) :
         IsLayoutTable(soup[t]) =>
           LET rows == FindAll(Src, t, {"tr"})
               wrapper == Successor(t)
           IN /\ Len(soup'[wrapper].kids) = Len(rows)
              /\ \A r \in 1..Len(rows) : RowMapped(soup'[wrapper].kids[r], rows[r])]_vars

\* the headings of the transformed document, in document order
Headings == FindAll(soup, Root, TitleTags)

LackedId(h) == Get(Src[h], "id") = <<>>

\* the number of headings before position i that lacked an id
RECURSIVE LackingBefore(_)
LackingBefore(i) ==
  IF i <= 1 THEN 0
  ELSE LackingBefore(i - 1) + (IF LackedId(Headings[i - 1]) THEN 1 ELSE 0)

\* C5 as claimed: after convert_file every heading has a non-empty id, and
\* the k-th heading that lacked an id (counting from 0) has the id heading-k.
C5_KthLackingGetsK ==
  pc = "done" =>
    \A i \in 1..Len(Headings) :
      /\ Get(soup[Headings[i]], "id") # <<>>
      /\ LackedId(Headings[i]) =>
           Get(soup[Headings[i]], "id") = HeadingPrefix \o ToStr(LackingBefore(i))

\* every heading has an id: heading-(i-1) at position i if it had none in
\* src, else the id it had in src
IdsByPosition(dom, src, headings) ==
  \A i \in 1..Len(headings) :
    /\ Get(dom[headings[i]], "id") # <<>>
    /\ IF Get(src[headings[i]], "id") = <<>>
       THEN Get(dom[headings[i]], "id") = HeadingPrefix \o ToStr(i - 1)
       ELSE Get(dom[headings[i]], "id") = Get(src[headings[i]], "id")

\* C5 amended: after convert_file every heading has a non-empty id; a
\* heading that lacked an id has heading-i, where i is its position (from 0)
\* among all the headings of the document, and a heading that had an id
\* keeps it.
C5_LackingGetsPosition == pc = "done" => IdsByPosition(soup, Src, Headings)

\* C5 witness: a heading that lacked an id follows a heading that had one
C5_Witness ==
  /\ pc = "done"
  /\ \E i \in 2..Len(Headings) :
       /\ LackedId(Headings[i])
       /\ ~LackedId(Headings[i - 1])

\* C6: in the output every anchor whose href began with the site origin has
\* the href with the origin taken off its front, and every other anchor
\* whose href began with http has target="_blank" and
\* rel="noopener noreferrer".
C6_LinksRewrittenOrMarked ==
  pc = "done" =>
    \A a \in Range(FindAll(soup, Root, {"a"})) :
      (a <= Len(Src) /\ HasAttr(Src[a], "href")) =>
        LET href == Src[a].attrs["href"]
        IN IF StartsWith(href, SiteOrigin)
           THEN Get(soup[a], "href") = SubSeq(href, Len(SiteOrigin) + 1, Len(href))
           ELSE StartsWith(href, HttpPrefix) =>
                  /\ Get(soup[a], "target") = Blank
                  /\ Get(soup[a], "rel") = NoOpener

(***************************************************************************)
(* convert_html.py: HTMLConverter.convert_all                              *)
(***************************************************************************)
DotHtm == <<".", "h", "t", "m">>
DotHtml == <<".", "h", "t", "m", "l">>
LowerAlphabet == <<"a", "b", "c", "d", "e", "f", "g", "h", "i", "j", "k", "l", "m",
                   "n", "o", "p", "q", "r", "s", "t", "u", "v", "w", "x", "y", "z">>

\* str.lower
LowerChar(c) ==
  IF \E i \in 1..Len(Alphabet) : Alphabet[i] = c
  THEN LowerAlphabet[CHOOSE i \in 1..Len(Alphabet) : Alphabet[i] = c]
  ELSE c

Lower(s) == [i \in 1..Len(s) |-> LowerChar(s[i])]

\* Path.name: the last component of a path
RECURSIVE PathName(_)
PathName(path) ==
  IF \E i \in 1..Len(path) : path[i] = "/"
  THEN PathName(SubSeq(path, (CHOOSE i \in 1..Len(path) : path[i] = "/") + 1, Len(path)))
  ELSE path

\* Path.suffix: the name's part from its last dot on ('' when there is none)
PathSuffix(path) ==
  LET name == PathName(path)
      dots == {i \in 2..Len(name) : name[i] = "."}
  IN IF dots = {} THEN <<>>
     ELSE SubSeq(name, CHOOSE i \in dots : \A j \in dots : j <= i, Len(name))

\* the files of a source: what the source path can hold
PathA == <<"a", ".", "h", "t", "m">>
PathB == <<"b", ".", "h", "t", "m", "l">>
PathC == <<"x", "_", "f", "i", "l", "e", "s", "/", "c", ".", "h", "t", "m", "l">>
PathN == <<"n", "o", "t", "e", "s", ".", "t", "x", "t">>
PathU == <<"D", ".", "H", "T", "M", "L">>

SourcePaths == {PathA, PathB, PathC, PathN, PathU}

\* where converting a file raises an exception, if anywhere
Faults == {"none", "read", "transform", "write"}

SourceFiles == [path : SourcePaths, fault : Faults]

\* the listings of a directory, in walk order: no path twice
RECURSIVE Listings(_)
Listings(n) ==
  IF n = 0 THEN {<<>>}
  ELSE { Append(l, f) : l \in Listings(n - 1), f \in SourceFiles }

DistinctPaths(l) == \A i, j \in 1..Len(l) : l[i].path = l[j].path => i = j

Sources ==
  { [isFile |-> TRUE, files |-> <<f>>] : f \in SourceFiles }
  \cup { [isFile |-> FALSE, files |-> l] :
           l \in { x \in UNION { Listings(n) : n \in 0..MaxFiles } : DistinctPaths(x) } }

\* list(rglob('*.htm')) + list(rglob('*.html'))
RGlob(files, suffix) == SelectSeq(files, LAMBDA f : EndsWith(PathName(f.path), suffix))

Discover(files) == RGlob(files, DotHtm) \o RGlob(files, DotHtml)

\* any(skip in str(file_path) for skip in ['_files', '.DS_Store'])
IsSkipped(f) == Contains(f.path, <<"_", "f", "i", "l", "e", "s">>) \/ Contains(f.path, <<".", "D", "S", "_", "S", "t", "o", "r", "e">>)

\* what leaves convert_file when an exception is raised in its try block
ExceptHandlerOnlyIO(fault) == IF fault = "transform" THEN "raise" ELSE "false"

\* except Exception: log, return False
ExceptHandler(fault) == "false"

\* convert_file(file_path): "true", "false", or "raise" when an exception escapes
ConvertFileResult(f) == IF f.fault = "none" THEN "true" ELSE ExceptHandler(f.fault)

\* the counters after a convert_file call that returned
Counted(st, result) ==
  IF result = "true" THEN [st EXCEPT !.converted = @ + 1] ELSE [st EXCEPT !.failed = @ + 1]

InitBatch ==
  /\ ConvertIdle
  /\ IndexIdle
  /\ SetupIdle
  /\ source \in Sources
  /\ html_files = <<>>
  /\ cursor = 0
  /\ stats = [converted |-> 0, failed |-> 0, skipped |-> 0]
  /\ outputs = {}
  /\ bpc = "start"

\* the source is a single file
ConvertSingle ==
  /\ bpc = "start"
  /\ source.isFile
  /\ LET f == source.files[1]
         r == ConvertFileResult(f)
     IN IF Lower(PathSuffix(f.path)) \in {DotHtm, DotHtml}
        THEN IF r = "raise"
             THEN bpc' = "crashed" /\ UNCHANGED <<stats, outputs>>
             ELSE /\ stats' = Counted(stats, r)
                  /\ outputs' = IF r = "true" THEN outputs \cup {f.path} ELSE outputs
                  /\ bpc' = "returned"
        ELSE /\ stats' = [stats EXCEPT !.skipped = @ + 1]
             /\ bpc' = "returned"
             /\ UNCHANGED outputs
  /\ UNCHANGED <<source, html_files, cursor>>
  /\ UNCHANGED <<convVars, indexVars, setupVars>>

\* the source is a directory: find the candidate files
FindFiles ==
  /\ bpc = "start"
  /\ ~source.isFile
  /\ html_files' = Discover(source.files)
  /\ cursor' = 1
  /\ bpc' = "loop"
  /\ UNCHANGED <<source, stats, outputs>>
  /\ UNCHANGED <<convVars, indexVars, setupVars>>

\* one iteration of the loop over html_files
LoopSkip ==
  /\ bpc = "loop"
  /\ cursor <= Len(html_files)
  /\ IsSkipped(html_files[cursor])
  /\ stats' = [stats EXCEPT !.skipped = @ + 1]
  /\ cursor' = cursor + 1
  /\ UNCHANGED <<source, html_files, outputs, bpc>>
  /\ UNCHANGED <<convVars, indexVars, setupVars>>

LoopConvert ==
  /\ bpc = "loop"
  /\ cursor <= Len(html_files)
  /\ ~IsSkipped(html_files[cursor])
  /\ LET f == html_files[cursor]
         r == ConvertFileResult(f)
     IN IF r = "raise"
        THEN bpc' = "crashed" /\ UNCHANGED <<stats, outputs, cursor>>
        ELSE /\ stats' = Counted(stats, r)
             /\ outputs' = IF r = "true" THEN outputs \cup {f.path} ELSE outputs
             /\ cursor' = cursor + 1
             /\ UNCHANGED bpc
  /\ UNCHANGED <<source, html_files>>
  /\ UNCHANGED <<convVars, indexVars, setupVars>>

ReturnStats ==
  /\ bpc = "loop"
  /\ cursor > Len(html_files)
  /\ bpc' = "returned"
  /\ UNCHANGED <<source, html_files, cursor, stats, outputs>>
  /\ UNCHANGED <<convVars, indexVars, setupVars>>

NextBatch ==
  \/ ConvertSingle
  \/ FindFiles
  \/ LoopSkip
  \/ LoopConvert
  \/ ReturnStats

SpecBatch == InitBatch /\ [][NextBatch]_vars

\* the candidate files of the source: the file itself, or the directory's
\* files named *.htm or *.html
Candidates ==
  IF source.isFile THEN source.files
  ELSE SelectSeq(source.files,
                 LAMBDA f : EndsWith(f.path, DotHtm) \/ EndsWith(f.path, DotHtml))

Total(st) == st.converted + st.failed + st.skipped

\* C9: an exception in one file's conversion never leaves convert_all; the
\* loop goes on to every later candidate; and when convert_all returns, the
\* three counters add up to the number of candidate files, each file having
\* been counted once (while the loop runs, once per file already passed).
C9_EveryCandidateCountedOnce ==
  /\ bpc # "crashed"
  /\ bpc = "loop" => Total(stats) = cursor - 1
  /\ bpc = "returned" =>
       /\ Total(stats) = Len(Candidates)
       /\ ~source.isFile => cursor = Len(Candidates) + 1
       /\ stats.failed = Cardinality({i \in 1..Len(Candidates) :
                           /\ Candidates[i].fault # "none"
                           /\ source.isFile \/ ~IsSkipped(Candidates[i])
                           /\ source.isFile => Lower(PathSuffix(Candidates[i].path)) \in {DotHtm, DotHtml}})

\* C9 witness: convert_all has returned after a file whose conversion raised
\* was followed by a file that was converted
C9_Witness ==
  /\ bpc = "returned"
  /\ stats.failed >= 1
  /\ \E i, j \in 1..Len(html_files) :
       /\ i < j
       /\ html_files[i].fault = "transform"
       /\ html_files[j].path \in outputs

(***************************************************************************)
(* build_search_index.py: SearchIndexBuilder                               *)
(***************************************************************************)
KeywordsName == <<"k", "e", "y", "w", "o", "r", "d", "s">>

bible_terms ==
  << <<"b", "i", "b", "l", "e">>,
     <<"s", "c", "r", "i", "p", "t", "u", "r", "e">>,
     <<"g", "o", "s", "p", "e", "l">>,
     <<"t", "e", "s", "t", "a", "m", "e", "n", "t">>,
     <<"c", "h", "r", "i", "s", "t", "i", "a", "n">>,
     <<"j", "e", "s", "u", "s">>,
     <<"c", "h", "r", "i", "s", "t">>,
     <<"g", "o", "d">>,
     <<"l", "o", "r", "d">>,
     <<"p", "r", "a", "y", "e", "r">>,
     <<"f", "a", "i", "t", "h">>,
     <<"s", "a", "l", "v", "a", "t", "i", "o", "n">>,
     <<"g", "r", "a", "c", "e">>,
     <<"l", "o", "v", "e">>,
     <<"p", "e", "a", "c", "e">>,
     <<"f", "o", "r", "g", "i", "v", "e", "n", "e", "s", "s">>,
     <<"r", "e", "p", "e", "n", "t", "a", "n", "c", "e">>,
     <<"b", "a", "p", "t", "i", "s", "m">>,
     <<"c", "o", "m", "m", "u", "n", "i", "o", "n">>,
     <<"c", "h", "u", "r", "c", "h">>,
     <<"w", "o", "r", "s", "h", "i", "p">> >>

\* the characters the regular expression \s and str.strip treat as blank
IsSpace(c) == c \in {" ", "\n", "\t", "\r"}

RECURSIVE StripLeft(_)
StripLeft(s) == IF s # <<>> /\ IsSpace(Head(s)) THEN StripLeft(Tail(s)) ELSE s

RECURSIVE StripRight(_)
StripRight(s) ==
  IF s # <<>> /\ IsSpace(s[Len(s)]) THEN StripRight(SubSeq(s, 1, Len(s) - 1)) ELSE s

\* str.strip
Strip(s) == StripRight(StripLeft(s))

\* re.sub(r'\s+', ' ', text)
RECURSIVE CollapseSpace(_)
CollapseSpace(s) ==
  IF s = <<>> THEN <<>>
  ELSE IF IsSpace(Head(s)) THEN <<" ">> \o CollapseSpace(StripLeft(s))
  ELSE <<Head(s)>> \o CollapseSpace(Tail(s))

\* str.split(','): the pieces between the separators, blanks kept
RECURSIVE Split(_, _)
Split(s, sep) ==
  IF \E i \in 1..Len(s) : s[i] = sep
  THEN LET at == CHOOSE i \in 1..Len(s) : s[i] = sep /\ \A j \in 1..(i - 1) : s[j] # sep
       IN <<SubSeq(s, 1, at - 1)>> \o Split(SubSeq(s, at + 1, Len(s)), sep)
  ELSE <<s>>

\* the strings html.parser keeps apart from a document's text: those of
\* script, style and template elements (and of rt, rp)
NonTextContainers == {"script", "style", "template", "rt", "rp"}

IsTextOf(dom, n) ==
  /\ dom[n].tag = "#text"
  /\ dom[ParentOf(dom, n)].tag \notin NonTextContainers

RECURSIVE JoinText(_, _)
JoinText(dom, nodes) ==
  IF nodes = <<>> THEN <<>>
  ELSE (IF IsTextOf(dom, Head(nodes)) THEN dom[Head(nodes)].text ELSE <<>>)
       \o JoinText(dom, Tail(nodes))

\* Tag.get_text(): the text strings below a node, joined in document order
GetText(dom, id) == JoinText(dom, Descendants(dom, id))

\* _extract_title
ExtractTitle(dom) ==
  LET title_tag == Find(dom, Root, {"title"})
      h1 == Find(dom, Root, {"h1"})
  IN IF title_tag # 0 THEN Strip(GetText(dom, title_tag))
     ELSE IF h1 # 0 THEN Strip(GetText(dom, h1))
     ELSE <<"U", "n", "t", "i", "t", "l", "e", "d">>

\* for script in soup(["script", "style"]): script.decompose()
RECURSIVE DecomposeAll(_, _)
DecomposeAll(dom, nodes) ==
  IF nodes = <<>> THEN dom ELSE DecomposeAll(Extract(dom, Head(nodes)), Tail(nodes))

RemoveScripts(dom) == DecomposeAll(dom, FindAll(dom, Root, {"script", "style"}))

\* _extract_content, on the document it has stripped of scripts and styles
ExtractContent(dom) == Strip(CollapseSpace(GetText(dom, Root)))

\* int(heading.name[1])
HeadingLevel(tag) ==
  CHOOSE l \in 1..6 : tag = <<"h1", "h2", "h3", "h4", "h5", "h6">>[l]

\* _extract_headings
ExtractHeadings(dom) ==
  LET hs == FindAll(dom, Root, HeadingTags)
  IN [i \in 1..Len(hs) |->
        [level |-> HeadingLevel(dom[hs[i]].tag),
         text |-> Strip(GetText(dom, hs[i])),
         id |-> Get(dom[hs[i]], "id")]]

\* the test of _extract_links: the href is kept as a link of the site
IsInternalHref(href) == ~StartsWith(href, HttpPrefix) /\ ~StartsWith(href, <<"#">>)

\* _extract_links
ExtractLinks(dom) ==
  LET kept == SelectSeq(LinksWithHref(dom), LAMBDA n : IsInternalHref(dom[n].attrs["href"]))
  IN [i \in 1..Len(kept) |->
        [url |-> dom[kept[i]].attrs["href"], text |-> Strip(GetText(dom, kept[i]))]]

\* soup.find('meta', attrs={'name': 'keywords'})
FindMetaKeywords(dom) ==
  LET ms == SelectSeq(FindAll(dom, Root, {"meta"}),
                      LAMBDA n : HasAttr(dom[n], "name") /\ dom[n].attrs["name"] = KeywordsName)
  IN IF ms = <<>> THEN 0 ELSE Head(ms)

\* the keywords list of _extract_keywords before list(set(keywords))
KeywordList(dom) ==
  LET meta == FindMetaKeywords(dom)
      fromMeta == IF meta # 0 THEN Split(Get(dom[meta], "content"), ",") ELSE <<>>
      text == Lower(GetText(dom, Root))
  IN fromMeta \o SelectSeq(bible_terms, LAMBDA term : Contains(text, term))

\* the lists that hold each member of a set once, in any order
RECURSIVE Orderings(_)
Orderings(S) ==
  IF S = {} THEN {<<>>}
  ELSE UNION { { <<x>> \o rest : rest \in Orderings(S \ {x}) } : x \in S }

\* list(set(keywords))[:1]: the list is cut after its first member
OrderingsCapped(keywords) ==
  { IF l = <<>> THEN l ELSE <<l[1]>> : l \in Orderings(Range(keywords)) }

\* list(set(keywords)): the order of a set's members is not defined
ListOfSet(keywords) == Orderings(Range(keywords))

\* Path.stat().st_mtime: the directory is not touched while it is indexed
ModifiedTime(f) == f.mtime

\* _get_relative_url: the path below the source directory, with forward slashes
RelativeUrl(path) == [i \in 1..Len(path) |-> IF path[i] = "\\" THEN "/" ELSE path[i]]

\* the page_data of _index_file, given the order list(set(...)) came out in
PageData(f, keywords) ==
  LET parsed == Parse(f.markup)
      title == ExtractTitle(parsed)
      stripped == RemoveScripts(parsed)
  IN [title |-> title,
      url |-> RelativeUrl(f.path),
      content |-> ExtractContent(stripped),
      headings |-> ExtractHeadings(stripped),
      links |-> ExtractLinks(stripped),
      keywords |-> keywords,
      last_modified |-> ModifiedTime(f)]

\* keywords looked up in every string of the file as it was read, the text
\* of scripts and styles included
RECURSIVE AllStrings(_, _)
AllStrings(dom, nodes) ==
  IF nodes = <<>> THEN <<>>
  ELSE (IF dom[Head(nodes)].tag = "#text" THEN dom[Head(nodes)].text ELSE <<>>)
       \o AllStrings(dom, Tail(nodes))

KeywordChoicesRaw(f) ==
  LET dom == Parse(f.markup)
      text == Lower(AllStrings(dom, Descendants(dom, Root)))
  IN ListOfSet(KeywordList(dom) \o SelectSeq(bible_terms, LAMBDA term : Contains(text, term)))

\* the lists that 'keywords': self._extract_keywords(soup) can yield: soup is
\* by then stripped of its scripts and styles
KeywordChoices(f) == ListOfSet(KeywordList(RemoveScripts(Parse(f.markup))))

(***************************************************************************)
(* The indexed directories.                                                *)
(***************************************************************************)
Psalm23 == <<"P", "s", "a", "l", "m", " ", "2", "3">>
ShepherdText == <<"T", "h", "e", " ", "L", "o", "r", "d", " ", "i", "s", " ", "m", "y", " ", "s", "h", "e", "p", "h", "e", "r", "d", ";", " ", "I", " ", "s", "h", "a", "l", "l", " ", "n", "o", "t", " ", "w", "a", "n", "t", ".">>
NotesText == <<" ", "N", "o", "t", "e", "s", "\n">>
GraceText == <<"g", "r", "a", "c", "e", " ", " ", "a", "n", "d", "\n", " ", "p", "e", "a", "c", "e">>
ScriptText == <<"v", "a", "r", " ", "g", "o", "s", "p", "e", "l", " ", "=", " ", "1", ";">>
LoveText == <<"L", "o", "v", "e">>
MetaContent == <<"p", "s", "a", "l", "m", "s", ",", "l", "o", "r", "d">>
HrefMail == <<"m", "a", "i", "l", "t", "o", ":", "a", "@", "b", ".", "c">>
HrefHttpd == <<"h", "t", "t", "p", "d", ".", "h", "t", "m", "l">>
PathC2 == <<"c", ".", "h", "t", "m", "l">>
PathD == <<"d", ".", "h", "t", "m">>

IndexBodies ==
  { <<Txt(ShepherdText)>>,
    <<El("h1", NoAttrs, <<Txt(NotesText)>>), El("p", NoAttrs, <<Txt(GraceText)>>),
      El("a", ("href" :> HrefRel), <<Txt(<<"n", "e", "x", "t">>)>>)>>,
    <<El("script", NoAttrs, <<Txt(ScriptText)>>), El("p", NoAttrs, <<Txt(LoveText)>>)>>,
    <<El("a", ("href" :> HrefExt), <<Txt(<<"x">>)>>), El("a", ("href" :> HrefFrag), <<Txt(<<"t">>)>>),
      El("a", ("href" :> HrefSecure), <<Txt(<<"s">>)>>), El("a", ("href" :> HrefMail), <<Txt(<<"m">>)>>),
      El("a", ("href" :> HrefHttpd), <<Txt(<<"d">>)>>)>> }

\* <html><head>[title][meta keywords]</head><body>...</body></html>
IndexDoc(title, meta, body) ==
  <<El("html", NoAttrs,
       <<El("head", NoAttrs,
            (IF title = <<>> THEN <<>> ELSE <<El("title", NoAttrs, <<Txt(title)>>)>>)
            \o (IF meta = <<>> THEN <<>>
                ELSE <<El("meta", ("name" :> KeywordsName) @@ ("content" :> meta), <<>>)>>)),
         El("body", NoAttrs, body)>>)>>

PsalmDoc == IndexDoc(Psalm23, <<>>, <<Txt(ShepherdText)>>)

IndexDocs ==
  { IndexDoc(title, <<>>, body) : title \in {<<>>, Psalm23}, body \in IndexBodies }
  \cup { IndexDoc(Psalm23, MetaContent, <<Txt(ShepherdText)>>) }

\* the i-th file of a directory's walk
SitePaths == <<PathB, PathC2, PathA, PathD>>

PageFiles(i) ==
  { [path |-> SitePaths[i], markup |-> doc, fault |-> "none", mtime |-> i] : doc \in IndexDocs }
  \cup { [path |-> SitePaths[i], markup |-> <<>>, fault |-> "read", mtime |-> i] }

RECURSIVE SitesOf(_)
SitesOf(n) ==
  IF n = 0 THEN {<<>>}
  ELSE { Append(l, f) : l \in SitesOf(n - 1), f \in PageFiles(n) }

Sites == UNION { SitesOf(n) : n \in 0..MaxPages }

(***************************************************************************)
(* build_search_index.py: SearchIndexBuilder.build_index                   *)
(***************************************************************************)
EmptyIndexFile == [writes |-> 0, data |-> <<>>]

InitIndex ==
  /\ ConvertIdle
  /\ BatchIdle
  /\ SetupIdle
  /\ site \in Sites
  /\ found = <<>>
  /\ position = 0
  /\ search_index = <<>>
  /\ index_file = EmptyIndexFile
  /\ first_index = EmptyIndexFile
  /\ ipc = "start"

\* the two rglob calls; a directory walk yields its entries in the order the
\* file system lists them, which is any order
FindPages ==
  /\ ipc = "start"
  /\ \E walk \in Orderings(Range(site)) : found' = Discover(walk)
  /\ position' = 1
  /\ ipc' = "loop"
  /\ UNCHANGED <<site, search_index, index_file, first_index>>
  /\ UNCHANGED <<convVars, batchVars, setupVars>>

\* _index_file returns: the record is appended
IndexFile ==
  /\ ipc = "loop"
  /\ position <= Len(found)
  /\ found[position].fault = "none"
  /\ \E keywords \in KeywordChoices(found[position]) :
       search_index' = Append(search_index, PageData(found[position], keywords))
  /\ position' = position + 1
  /\ UNCHANGED <<site, found, index_file, first_index, ipc>>
  /\ UNCHANGED <<convVars, batchVars, setupVars>>

\* _index_file raises and the exception ends the scan
IndexFileFailsStops ==
  /\ ipc = "loop"
  /\ position <= Len(found)
  /\ found[position].fault # "none"
  /\ position' = Len(found) + 1
  /\ UNCHANGED <<site, found, search_index, index_file, first_index, ipc>>
  /\ UNCHANGED <<convVars, batchVars, setupVars>>

\* _index_file raises: the exception is logged, the loop goes on
IndexFileFails ==
  /\ ipc = "loop"
  /\ position <= Len(found)
  /\ found[position].fault # "none"
  /\ position' = position + 1
  /\ UNCHANGED <<site, found, search_index, index_file, first_index, ipc>>
  /\ UNCHANGED <<convVars, batchVars, setupVars>>

\* _save_index, and build_index returns
SaveIndex ==
  /\ ipc = "loop"
  /\ position > Len(found)
  /\ index_file' = [writes |-> index_file.writes + 1, data |-> search_index]
  /\ ipc' = "returned"
  /\ UNCHANGED <<site, found, position, search_index, first_index>>
  /\ UNCHANGED <<convVars, batchVars, setupVars>>

\* the Indexer is run once more over the unchanged directory: a new
\* SearchIndexBuilder, the first run's output kept aside for comparison
RunAgain ==
  /\ ipc = "returned"
  /\ first_index.writes = 0
  /\ first_index' = index_file
  /\ index_file' = EmptyIndexFile
  /\ search_index' = <<>>
  /\ found' = <<>>
  /\ position' = 0
  /\ ipc' = "start"
  /\ UNCHANGED site
  /\ UNCHANGED <<convVars, batchVars, setupVars>>

NextIndex ==
  \/ FindPages
  \/ IndexFile
  \/ IndexFileFails
  \/ SaveIndex
  \/ RunAgain

SpecIndex == InitIndex /\ [][NextIndex]_vars

\* both runs of the Indexer have written their index
BothRunsDone == ipc = "returned" /\ first_index.writes > 0

\* the records of a written index made from the file of a url
RecordsOf(index, url) == { i \in 1..Len(index.data) : index.data[i].url = url }

SameRecord(a, b) ==
  /\ a.title = b.title
  /\ a.content = b.content
  /\ a.headings = b.headings
  /\ a.links = b.links
  /\ Range(a.keywords) = Range(b.keywords)

\* C7: two runs of the Indexer over an unchanged directory write, for each
\* file, records with the same title, content, headings and links, and the
\* same keywords as a set, whatever order the keyword lists came out in.
C7_IndexingIsDeterministic ==
  BothRunsDone =>
    \A f \in Range(site) :
      LET url == RelativeUrl(f.path)
      IN /\ Cardinality(RecordsOf(first_index, url)) = Cardinality(RecordsOf(index_file, url))
         /\ \A i \in RecordsOf(first_index, url), j \in RecordsOf(index_file, url) :
              SameRecord(first_index.data[i], index_file.data[j])

\* C7 witness: both runs are done and a file's keyword list came out in a
\* different order in the second run
C7_Witness ==
  /\ BothRunsDone
  /\ \E i \in 1..Len(first_index.data), j \in 1..Len(index_file.data) :
       /\ first_index.data[i].url = index_file.data[j].url
       /\ Len(index_file.data[j].keywords) >= 2
       /\ index_file.data[j].keywords # first_index.data[i].keywords

\* the file a record was made from
FileOf(record) == CHOOSE f \in Range(site) : RelativeUrl(f.path) = record.url

\* C8: the file <title>Psalm 23</title> with the body text "The Lord is my
\* shepherd; I shall not want." is indexed to a record with title "Psalm 23",
\* with exactly that body text as content, and with keywords that contain
\* "lord" and not "gospel".
C8_PsalmRecord ==
  \A i \in 1..Len(search_index) :
    FileOf(search_index[i]).markup = PsalmDoc =>
      /\ search_index[i].title = Psalm23
      /\ search_index[i].content = ShepherdText
      /\ <<"l", "o", "r", "d">> \in Range(search_index[i].keywords)
      /\ <<"g", "o", "s", "p", "e", "l">> \notin Range(search_index[i].keywords)

(***************************************************************************)
(* setup.py: main and BibleTextsSetup.setup                                *)
(***************************************************************************)
\* the source paths setup can be given: a missing path, a file, a directory
TargetFiles == { [path |-> p] : p \in SourcePaths }

Targets ==
  { [exists |-> FALSE, isFile |-> FALSE, files |-> <<>>] }
  \cup { [exists |-> TRUE, isFile |-> TRUE, files |-> <<f>>] : f \in TargetFiles }
  \cup { [exists |-> TRUE, isFile |-> FALSE, files |-> l] :
           l \in { x \in UNION { [1..n -> TargetFiles] : n \in 0..MaxFiles } : DistinctPaths(x) } }

\* the return codes of a subprocess
ReturnCodes == {0, 1, 2}

\* the files under the root directory before setup runs
IndexHtml == <<"i", "n", "d", "e", "x", ".", "h", "t", "m", "l">>
DocsIndexHtml == <<"d", "o", "c", "s", "/">> \o IndexHtml
AboutHtml == <<"a", "b", "o", "u", "t", ".", "h", "t", "m", "l">>
OldHtm == <<"o", "l", "d", ".", "h", "t", "m">>
RootPaths == {IndexHtml, DocsIndexHtml, AboutHtml, OldHtm}

RootListings ==
  { { [path |-> p, mtime |-> 1] : p \in paths } :
      paths \in { x \in SUBSET RootPaths : Cardinality(x) <= MaxRootFiles } }

\* (self.root_dir / "index.html").exists()
HasRootIndex(files) == \E f \in files : f.path = IndexHtml

\* a file is written under the root directory, over the file of that path
WriteRootFile(files, path, mtime) ==
  { f \in files : f.path # path } \cup { [path |-> path, mtime |-> mtime] }

\* the output paths of the convert subprocess: the name of a single file,
\* the relative paths of the files of a directory that are not skipped
ConvertOutputs(t) ==
  IF ~t.exists THEN {}
  ELSE IF t.isFile
       THEN IF Lower(PathSuffix(t.files[1].path)) \in {DotHtm, DotHtml}
            THEN {PathName(t.files[1].path)} ELSE {}
  ELSE { f.path : f \in { g \in Range(Discover(t.files)) : ~IsSkipped(g) } }

\* the root directory after a convert subprocess that wrote the files of done
Converted(files, done) ==
  { f \in files : f.path \notin done } \cup { [path |-> p, mtime |-> 2] : p \in done }

SitemapBase == <<"h", "t", "t", "p", "s", ":", "/", "/", "b", "i", "b", "l", "e", "t", "e", "x", "t", "s", ".", "c", "o", "m", "/">>

\* html_file.name != "index.html"
IsMainIndex(f) == PathName(f.path) = IndexHtml

\* _create_sitemap: the <url> entries, for the files in the order of the walk
SitemapEntries(walk) ==
  LET listed == SelectSeq(RGlob(walk, DotHtml), LAMBDA f : ~IsMainIndex(f))
  IN [i \in 1..Len(listed) |->
        [loc |-> SitemapBase \o listed[i].path, lastmod |-> listed[i].mtime]]

PagesFiles == <<".nojekyll", "CNAME", "robots.txt", "sitemap.xml">>
RootIndexFiles == <<"index.html">>
DeploymentFiles == <<"requirements.txt", ".gitignore", "README.md">>

\* the steps of setup() after the two subprocesses
LaterSteps == {"pages", "root", "deploy"}

\* _validate_source raises
ValidateRaises(t) ==
  IF ~t.exists THEN TRUE
  ELSE IF t.isFile THEN Lower(PathSuffix(t.files[1].path)) \notin {DotHtm, DotHtml}
  ELSE Discover(t.files) = <<>>

\* a convert subprocess that is never taken to have failed
ConvertRaisesNever(rc) == FALSE

\* _convert_html_files raises: returncode != 0
ConvertRaises(rc) == rc # 0

\* _build_search_index raises: a returncode != 0 is logged as a warning
IndexRaises(rc) == FALSE

InitSetup ==
  /\ ConvertIdle
  /\ BatchIdle
  /\ IndexIdle
  /\ source_path \in Targets
  /\ script_present \in BOOLEAN
  /\ root_files \in RootListings
  /\ root_index = HasRootIndex(root_files)
  /\ sitemap = <<>>
  /\ steps = <<>>
  /\ created = {}
  /\ convert_result = NotRun
  /\ index_result = NotRun
  /\ exit_status = 0
  /\ spc = "main"

\* a step is entered: it raises, and setup()'s handler exits with status 1,
\* or it returns and the next step follows
Enter(step, raises, next) ==
  /\ steps' = Append(steps, step)
  /\ IF raises
     THEN spc' = "exited" /\ exit_status' = 1
     ELSE spc' = next /\ UNCHANGED exit_status

\* a step that writes the files of names in order: the n first writes succeed
WriteFiles(step, names, next) ==
  \E n \in 0..Len(names) :
    /\ created' = created \cup { names[i] : i \in 1..n }
    /\ Enter(step, n < Len(names), next)

\* main(): exit 1 when convert_html.py is not in the current directory
SetupMain ==
  /\ spc = "main"
  /\ IF script_present
     THEN spc' = "validate" /\ UNCHANGED exit_status
     ELSE spc' = "exited" /\ exit_status' = 1
  /\ UNCHANGED <<source_path, script_present, root_index, steps, created, convert_result, index_result>>
  /\ UNCHANGED <<root_files, sitemap>>
  /\ UNCHANGED <<convVars, batchVars, indexVars>>

ValidateSource ==
  /\ spc = "validate"
  /\ Enter("validate", ValidateRaises(source_path), "convert")
  /\ UNCHANGED <<source_path, script_present, root_index, created, convert_result, index_result>>
  /\ UNCHANGED <<root_files, sitemap>>
  /\ UNCHANGED <<convVars, batchVars, indexVars>>

ConvertHtmlFiles ==
  /\ spc = "convert"
  /\ \E rc \in ReturnCodes :
       /\ convert_result' = [ran |-> TRUE, returncode |-> rc]
       /\ Enter("convert", ConvertRaises(rc), "index")
  /\ \E done \in SUBSET ConvertOutputs(source_path) :
       root_files' = Converted(root_files, done)
  /\ root_index' = HasRootIndex(root_files')
  /\ UNCHANGED <<source_path, script_present, created, index_result, sitemap>>
  /\ UNCHANGED <<convVars, batchVars, indexVars>>

BuildSearchIndex ==
  /\ spc = "index"
  /\ \E rc \in ReturnCodes :
       /\ index_result' = [ran |-> TRUE, returncode |-> rc]
       /\ Enter("index", IndexRaises(rc), "pages")
  /\ UNCHANGED <<source_path, script_present, root_index, created, convert_result>>
  /\ UNCHANGED <<root_files, sitemap>>
  /\ UNCHANGED <<convVars, batchVars, indexVars>>

\* _create_github_pages_files, _create_sitemap included
CreateGithubPagesFiles ==
  /\ spc = "pages"
  /\ WriteFiles("pages", PagesFiles, "root")
  /\ sitemap' \in IF "sitemap.xml" \in created'
                  THEN { SitemapEntries(walk) : walk \in Orderings(root_files) }
                  ELSE {sitemap}
  /\ UNCHANGED <<source_path, script_present, root_index, convert_result, index_result>>
  /\ UNCHANGED root_files
  /\ UNCHANGED <<convVars, batchVars, indexVars>>

\* _create_root_index: nothing is written over an index.html that exists
CreateRootIndex ==
  /\ spc = "root"
  /\ IF root_index
     THEN /\ Enter("root", FALSE, "deploy")
          /\ UNCHANGED <<created, root_index, root_files>>
     ELSE /\ WriteFiles("root", RootIndexFiles, "deploy")
          /\ root_index' = ("index.html" \in created')
          /\ root_files' = IF root_index' THEN WriteRootFile(root_files, IndexHtml, 3)
                            ELSE root_files
  /\ UNCHANGED <<source_path, script_present, convert_result, index_result, sitemap>>
  /\ UNCHANGED <<convVars, batchVars, indexVars>>

CreateDeploymentFiles ==
  /\ spc = "deploy"
  /\ WriteFiles("deploy", DeploymentFiles, "summary")
  /\ UNCHANGED <<source_path, script_present, root_index, convert_result, index_result>>
  /\ UNCHANGED <<root_files, sitemap>>
  /\ UNCHANGED <<convVars, batchVars, indexVars>>

\* _print_summary; setup() and main() return
PrintSummary ==
  /\ spc = "summary"
  /\ spc' = "exited"
  /\ exit_status' = 0
  /\ UNCHANGED <<source_path, script_present, root_index, steps, created, convert_result, index_result>>
  /\ UNCHANGED <<root_files, sitemap>>
  /\ UNCHANGED <<convVars, batchVars, indexVars>>

NextSetup ==
  \/ SetupMain
  \/ ValidateSource
  \/ ConvertHtmlFiles
  \/ BuildSearchIndex
  \/ CreateGithubPagesFiles
  \/ CreateRootIndex
  \/ CreateDeploymentFiles
  \/ PrintSummary

SpecSetup == InitSetup /\ [][NextSetup]_vars

Entered(step) == step \in Range(steps)

SourceMissing == ~source_path.exists
NoHtmlFound == source_path.exists /\ ~source_path.isFile /\ Discover(source_path.files) = <<>>
ConvertFailed == convert_result.ran /\ convert_result.returncode # 0
IndexFailed == index_result.ran /\ index_result.returncode # 0

\* the run was aborted: no later step was entered, and the exit status is
\* not zero once the process has exited
Aborted ==
  /\ \A step \in LaterSteps : ~Entered(step)
  /\ spc = "exited" => exit_status # 0

\* C10: a missing source path, a source without HTML files, a convert
\* subprocess or a build-index subprocess that returned a non-zero status:
\* each aborts the run, no later step (scaffolding, root index, deployment
\* files) is executed and the exit status is not zero.
C10_FatalConditionsAbort ==
  /\ (Entered("validate") /\ (SourceMissing \/ NoHtmlFound)) => Aborted
  /\ ConvertFailed => Aborted
  /\ IndexFailed => Aborted

\* C10, amended: a missing source path, a source without HTML files and a
\* convert subprocess that returned a non-zero status abort the run; after a
\* build-index subprocess that returned a non-zero status the run goes on to
\* the scaffolding step.
C10_FatalExceptIndexFailure ==
  /\ (Entered("validate") /\ (SourceMissing \/ NoHtmlFound)) => Aborted
  /\ ConvertFailed => Aborted
  /\ IndexFailed => (spc = "pages" \/ Entered("pages"))

\* C10 witness: the convert subprocess returned a non-zero status and the
\* process has exited
C10_Witness ==
  /\ spc = "exited"
  /\ ConvertFailed
  /\ exit_status = 1
  /\ steps = <<"validate", "convert">>

\* the .html files discovered under the root, the root index aside
SitemapFiles == { f \in root_files : EndsWith(PathName(f.path), DotHtml) /\ f.path # IndexHtml }

EntriesOf(path) == { i \in 1..Len(sitemap) : sitemap[i].loc = SitemapBase \o path }

\* C11: the sitemap.xml written has exactly one <url> entry for every .html
\* file under the root except the root index; an index.html of a
\* subdirectory has its entry, and no entry is for anything else.
C11_SitemapListsEveryPage ==
  "sitemap.xml" \in created =>
    /\ \A f \in SitemapFiles : Cardinality(EntriesOf(f.path)) = 1
    /\ \A i \in 1..Len(sitemap) :
         \E f \in SitemapFiles : sitemap[i].loc = SitemapBase \o f.path

\* an absolute http(s) URL, a pure fragment, a URL with a scheme or a host
IsAbsoluteHttp(href) ==
  StartsWith(href, HttpSlashes) \/ StartsWith(href, <<"h", "t", "t", "p", "s", ":", "/", "/">>)

IsFragment(href) == StartsWith(href, <<"#">>)

HasScheme(href) ==
  \E i \in 1..Len(href) : href[i] = ":" /\ \A j \in 1..(i - 1) : href[j] # "/"

HasHost(href) == StartsWith(href, <<"/", "/">>)

\* C12: the links of every index record are exactly the anchors of the file
\* with an href that is neither an absolute http(s) URL nor a pure fragment,
\* in document order, and no recorded url points to another site or scheme.
C12_LinksAreSameSite ==
  \A i \in 1..Len(search_index) :
    LET dom == Parse(FileOf(search_index[i]).markup)
        links == search_index[i].links
        anchors == SelectSeq(LinksWithHref(dom),
                             LAMBDA n : /\ ~IsAbsoluteHttp(dom[n].attrs["href"])
                                        /\ ~IsFragment(dom[n].attrs["href"]))
    IN /\ Len(links) = Len(anchors)
       /\ \A k \in 1..Len(links) :
            /\ k <= Len(anchors) => links[k].url = dom[anchors[k]].attrs["href"]
            /\ ~HasScheme(links[k].url)
            /\ ~HasHost(links[k].url)
            /\ ~IsFragment(links[k].url)

\* C13: in the converted output an anchor carries the external-link class
\* if and only if its href is an absolute external URL; an anchor whose final
\* href is a relative path does not carry the class.
C13_ExternalClassIffExternal ==
  pc = "done" =>
    \A n \in Range(FindAll(soup, Root, {"a"})) :
      HasClass(soup[n], "external-link")
        <=> (HasAttr(soup[n], "href") /\ IsAbsoluteHttp(soup[n].attrs["href"]))

\* the files found whose indexing does not raise, in discovery order
IndexedFiles == SelectSeq(found, LAMBDA f : f.fault = "none")

IsPrefix(s, t) == Len(s) <= Len(t) /\ SubSeq(t, 1, Len(s)) = s

\* the index as build_index returns it, and the one write of the output file
IndexAtReturn ==
  /\ index_file.writes <= 1
  /\ index_file.writes = 1 => (position > Len(found) /\ index_file.data = search_index)
  /\ ipc = "returned" =>
       /\ index_file.writes = 1
       /\ Len(search_index) = Len(IndexedFiles)
       /\ \A k \in 1..Len(search_index) :
            k <= Len(IndexedFiles) =>
              search_index[k].url = RelativeUrl(IndexedFiles[k].path)

\* a step of the scan leaves the list as it is or appends one record to it
GrowsByAppend ==
  (ipc = "loop" /\ ipc' = "loop") =>
    /\ IsPrefix(search_index, search_index')
    /\ Len(search_index') <= Len(search_index) + 1

\* C14: when build_index returns the index holds one record per file that
\* was indexed without error, in discovery order; a file whose indexing
\* raised adds no record and later files are still indexed; during the scan
\* the list only grows by append, and it is written once, after the last file.
C14_OneRecordPerIndexedFile == [](IndexAtReturn) /\ [][GrowsByAppend]_vars

\* C14 witness: build_index has returned with a record of a file that was
\* found after a file whose indexing raised
C14_Witness ==
  /\ ipc = "returned"
  /\ index_file.writes = 1
  /\ \E i, j \in 1..Len(found) :
       /\ i < j
       /\ found[i].fault # "none"
       /\ found[j].fault = "none"
       /\ \E k \in 1..Len(search_index) : search_index[k].url = RelativeUrl(found[j].path)

SkipTarget == <<"#", "m", "a", "i", "n", "-", "c", "o", "n", "t", "e", "n", "t">>

IsSkipLink(n) == n.tag = "a" /\ Get(n, "href") = SkipTarget

\* the passes after _add_modern_structure, and after _add_accessibility
AfterStructure == {"structure", "tables", "accessibility", "responsive", "links", "done"}
AfterAccessibility == {"accessibility", "responsive", "links", "done"}

\* the document has a body, and the first child of body is the skip link
SkipLinkFirst(dom, body) ==
  /\ body # 0
  /\ dom[body].kids # <<>>
  /\ IsSkipLink(dom[dom[body].kids[1]])

\* C15: from _add_modern_structure on, and in the output written, the skip
\* link (href="#main-content") is the first child of body, whatever the later
\* passes do; from _add_accessibility on body carries the id main-content.
C15_SkipLinkStaysFirst ==
  /\ pc \in AfterStructure => SkipLinkFirst(soup, NewBody)
  /\ pc \in AfterAccessibility => Get(soup[NewBody], "id") = SubSeq(SkipTarget, 2, Len(SkipTarget))
  /\ pc = "done" =>
       LET body == written[1].kids[2]
       IN /\ body.tag = "body"
          /\ Get(body, "id") = SubSeq(SkipTarget, 2, Len(SkipTarget))
          /\ IsSkipLink(body.kids[1])

\* C15 witness: the output is written, a layout table of the source was
\* replaced by its wrapper, and body holds the skip link before that wrapper
C15_Witness ==
  /\ pc = "done"
  /\ Len(soup[NewBody].kids) >= 2
  /\ IsSkipLink(soup[soup[NewBody].kids[1]])
  /\ \E n \in Range(FindAll(soup, NewBody, {"div"})) : HasClass(soup[n], "modern-layout")

IsDoctypeMarker(n) ==
  n.tag = "#comment" /\ n.text = <<"D", "O", "C", "T", "Y", "P", "E", " ", "h", "t", "m", "l">>

\* C16: the document that _convert_to_html5 leaves starts with the doctype
\* marker, the rebuilt html element follows it, and the marker is still the
\* first node of the markup that is written.
C16_DoctypeMarkerFirst ==
  /\ pc \in {"html5"} \cup AfterStructure =>
       /\ Len(soup[Root].kids) >= 2
       /\ IsDoctypeMarker(soup[soup[Root].kids[1]])
       /\ soup[soup[Root].kids[2]].tag = "html"
  /\ pc = "done" => IsDoctypeMarker(written[1])

\* the ids present on the headings of the source are pairwise distinct
SourceIdsDistinct ==
  \A i, j \in 1..Len(Headings) :
    (/\ i # j
     /\ ~LackedId(Headings[i])
     /\ ~LackedId(Headings[j])) => Get(Src[Headings[i]], "id") # Get(Src[Headings[j]], "id")

\* C17: after convert_file the ids of the headings are pairwise distinct
\* whenever the ids present on headings of the source were: a generated
\* heading-N id is never the id of another heading.
C17_HeadingIdsDistinct ==
  (pc = "done" /\ SourceIdsDistinct) =>
    \A i, j \in 1..Len(Headings) :
      i # j => Get(soup[Headings[i]], "id") # Get(soup[Headings[j]], "id")

\* the tables of the document that is being rewritten
Tables == FindAll(soup, Root, {"table"})

\* the passes after _convert_tables
AfterTables == {"tables", "accessibility", "responsive", "links", "done"}

\* C18: in every output of convert_file there is no table with width="100%"
\* and no table that carries the container class.
C18_NoContainerTable ==
  pc = "done" =>
    \A t \in Range(Tables) :
      /\ Get(soup[t], "width") # W100
      /\ ~HasClass(soup[t], "container")

\* C18 amended: from the table pass on, and so when responsive classing
\* runs and in every output, there is no table with width="100%"; a table of
\* the output carries the container class only if it carried it in the source.
C18_NoFullWidthTable ==
  pc \in AfterTables =>
    \A t \in Range(Tables) :
      /\ Get(soup[t], "width") # W100
      /\ HasClass(soup[t], "container") => (t <= Len(Src) /\ HasClass(Src[t], "container"))

\* C18 witness: the source held a table with width="100%" and the output,
\* which holds none, is written
C18_Witness ==
  /\ pc = "done"
  /\ \E t \in Range(FindAll(Src, Root, {"table"})) : Get(Src[t], "width") = W100
  /\ \A t \in Range(Tables) : Get(soup[t], "width") # W100

\* the text of a file's document inside, and outside, its scripts and styles
InScript(dom, n) == \E a \in Ancestors(dom, n) : dom[a].tag \in {"script", "style"}

RECURSIVE TextWhere(_, _, _)
TextWhere(dom, nodes, inside) ==
  IF nodes = <<>> THEN <<>>
  ELSE (IF dom[Head(nodes)].tag = "#text" /\ InScript(dom, Head(nodes)) = inside
        THEN dom[Head(nodes)].text ELSE <<>>)
       \o TextWhere(dom, Tail(nodes), inside)

\* a term that occurs in the text inside and not in the text outside, nor
\* in the content of a meta element
OnlyInScript(dom, inside, outside, term) ==
  /\ Contains(inside, term)
  /\ ~Contains(outside, term)
  /\ \A m \in Range(FindAll(dom, Root, {"meta"})) : ~Contains(Get(dom[m], "content"), term)

\* the vocabulary terms that occur only inside a script or style of a document
ScriptOnlyTerms(dom) ==
  \* a value is bound once by ranging over the set that holds it alone
  LET nodes == Descendants(dom, Root)
  IN UNION { { term \in Range(bible_terms) : OnlyInScript(dom, inside, outside, term) } :
               inside \in {Lower(TextWhere(dom, nodes, TRUE))},
               outside \in {Lower(TextWhere(dom, nodes, FALSE))} }

\* for each document of the indexed directories: the vocabulary terms that
\* occur only in its scripts and styles, and the text of its title element
ScriptOnlyTermsOf == [doc \in IndexDocs |-> ScriptOnlyTerms(Parse(doc))]

TitleTextOf ==
  [doc \in IndexDocs |->
     LET dom == Parse(doc)
         title_tag == Find(dom, Root, {"title"})
     IN IF title_tag # 0 THEN <<Strip(GetText(dom, title_tag))>> ELSE <<>>]

\* C19: a vocabulary term that occurs only inside a script or style of the
\* file is not among the record's keywords, and the record's title is the
\* text of the title element of the file as it was read.
C19_ScriptTermsNotKeywords ==
  \A i \in 1..Len(search_index) :
    LET doc == FileOf(search_index[i]).markup
    IN /\ ScriptOnlyTermsOf[doc] \cap Range(search_index[i].keywords) = {}
       /\ TitleTextOf[doc] # <<>> => search_index[i].title = TitleTextOf[doc][1]

\* C19 witness: a record of a file with a vocabulary term that occurs only
\* in a script, its title taken from the title element, and with a keyword
\* found in the text outside the script
C19_Witness ==
  \E i \in 1..Len(search_index) :
    LET doc == FileOf(search_index[i]).markup
    IN /\ ScriptOnlyTermsOf[doc] # {}
       /\ TitleTextOf[doc] # <<>>
       /\ search_index[i].title = Psalm23
       /\ search_index[i].keywords # <<>>

====
